---- MODULE Spec2Model ----
(***************************************************************************)
(* A model of the thermal simulation engine of ThermalDynamicsVisualizer:  *)
(* class ThermalSimulation of thermal_logic.py (construction, system       *)
(* parameters, the finite-difference solver, CO2 accounting, the hourly    *)
(* retention curve), with the caller's use of it in main.py.               *)
(*                                                                         *)
(* Arithmetic.  The program computes in IEEE doubles; the model computes   *)
(* the same expressions in exact rational arithmetic.  A temperature field *)
(* after t steps is held as integers U = Scale0 * StepDen^t * T, every     *)
(* integer a little-endian sequence of Limbs limbs to the base Base (the   *)
(* top limb carries the sign), so that no step ever rounds.                *)
(***************************************************************************)
EXTENDS Integers, Sequences, FiniteSets, TLC

\* ------------------------------------------------------------------------
\* Bounds of the model (not program constants)

\* Limbs of a multi-precision integer.
Limbs == 7
\* Largest time_steps argument of the short runs of calculate_heat_transfer.
MaxSteps == 2
\* The time_steps argument of the long runs of calculate_heat_transfer.
LongSteps == 30

\* ------------------------------------------------------------------------
\* Program constants

\* self.grid_size = (50, 50)
GridRows == 50
GridCols == 50

\* ------------------------------------------------------------------------
\* Integer helpers

Base == 2^20
\* Initial scale of a temperature: divisible by pillar_cells - 1 for every
\* pillar_cells up to 10, so that np.linspace is exact.
Scale0 == 8 * 9 * 5 * 7

Abs(x) == IF x < 0 THEN -x ELSE x
Min(x, y) == IF x <= y THEN x ELSE y
Max(x, y) == IF x >= y THEN x ELSE y

RECURSIVE GCD(_, _)
GCD(x, y) == IF y = 0 THEN Abs(x) ELSE GCD(y, x % Abs(y))

\* Python's int(x / y) of a true quotient: truncation toward zero.
TruncDiv(x, y) ==
    LET q == Abs(x) \div Abs(y)
    IN  IF (x < 0) = (y < 0) THEN q ELSE -q

\* Multi-precision integers: limbs 1..Limbs-1 lie in 0..Base-1, limb Limbs
\* is signed.
RECURSIVE CarryFrom(_, _, _)
CarryFrom(raw, k, c) ==
    IF k = Limbs THEN <<raw[k] + c>>
    ELSE LET v == raw[k] + c
         IN  <<v % Base>> \o CarryFrom(raw, k + 1, v \div Base)
Carry(raw) == CarryFrom(raw, 1, 0)

Num(x) == Carry([k \in 1..Limbs |-> IF k = 1 THEN x ELSE 0])
NumIsNeg(x) == x[Limbs] < 0
NumSub(x, y) == Carry([k \in 1..Limbs |-> x[k] - y[k]])
NumScale(c, x) == Carry([k \in 1..Limbs |-> c * x[k]])
NumLeq(x, y) == ~NumIsNeg(NumSub(y, x))
NumLess(x, y) == NumIsNeg(NumSub(x, y))

\* c ^ n as a multi-precision integer.
RECURSIVE NumPow(_, _)
NumPow(c, n) == IF n = 0 THEN Num(1) ELSE NumScale(c, NumPow(c, n - 1))

\* ------------------------------------------------------------------------
\* Values and objects

\* A rational number num/den as a record; quantities in metres and the
\* thermal diffusivity are rationals.
Rat(n, d) == [num |-> n, den |-> d]
RatNorm(x) ==
    LET g == GCD(x.num, x.den)
        sgn == IF x.den < 0 THEN -1 ELSE 1
    IN  Rat(sgn * (x.num \div g), sgn * (x.den \div g))
RatInt(i) == Rat(i, 1)
RatMul(x, y) ==
    LET a == RatNorm(Rat(x.num, y.den))
        b == RatNorm(Rat(y.num, x.den))
    IN  RatNorm(Rat(a.num * b.num, a.den * b.den))
RatAdd(x, y) ==
    LET g == GCD(x.den, y.den)
    IN  RatNorm(Rat(x.num * (y.den \div g) + y.num * (x.den \div g),
                    (x.den \div g) * y.den))
RatNeg(x) == Rat(-x.num, x.den)
RatSub(x, y) == RatAdd(x, RatNeg(y))
RatDiv(x, y) == RatMul(x, Rat(y.den, y.num))
RatEq(x, y) == RatNorm(x) = RatNorm(y)
RatLeq(x, y) == RatSub(y, x).num >= 0

\* A Python dict is a function whose DOMAIN is its key set.
dict_get(d, key, default) == IF key \in DOMAIN d THEN d[key] ELSE default
dict_set(d, key, val) ==
    [k \in DOMAIN d \cup {key} |-> IF k = key THEN val ELSE d[k]]

\* An unallocated address, and a caller variable that holds no simulation.
NoObj == [unallocated |-> TRUE]
NoSim == [unassigned |-> TRUE]

\* Names of the objects the caller holds: its material-property mapping and
\* its simulations (hypocaust_sim, modern_sim of main).
CallerDicts == {1}
SimIds == {1, 2}
Addrs == 1..(Cardinality(CallerDicts) + Cardinality(SimIds))

VARIABLES
    heap,   \* the dict objects: address -> mapping, or NoObj if unallocated
    sims,   \* the caller's simulations: SimIds -> ThermalSimulation or NoSim
    pc,     \* position inside calculate_heat_transfer: "idle" or "loop"
    call,   \* arguments of the running calculate_heat_transfer
    T,      \* its local temperature field T
    t,      \* its loop counter
    last,   \* the last operation and what it handed to the caller
    received  \* the field the caller holds from the last call that returned one

vars == <<heap, sims, pc, call, T, t, last, received>>

NoCall == [sim |-> 0, initial_temp |-> 0, time_steps |-> 0]
NoField == <<>>
\* The caller's variable before any call has returned.
NoResult == [unassigned |-> TRUE]

\* An operation with its arguments and what it hands back: a value (kind
\* "return") or an exception (kind "raise", exc its type, val its arguments).
Outcome(op, sim, args, kind, exc, val) ==
    [op |-> op, sim |-> sim, args |-> args, kind |-> kind, exc |-> exc, val |-> val]

\* The lowest unallocated address.
FreshAddr ==
    CHOOSE a \in Addrs :
        /\ heap[a] = NoObj
        /\ \A b \in Addrs : b < a => heap[b] # NoObj

\* ------------------------------------------------------------------------
\* ThermalSimulation.__init__

required_props == <<"thermal_conductivity", "density", "specific_heat">>

\* A check that stops at the first absent property.
first_missing_prop(material_properties) ==
    LET absent == SelectSeq(required_props,
                            LAMBDA prop : prop \notin DOMAIN material_properties)
    IN  IF absent = <<>> THEN <<>> ELSE <<absent[1]>>
\* missing_props = [prop for prop in required_props if prop not in ...]
missing_props(material_properties) ==
    SelectSeq(required_props, LAMBDA prop : prop \notin DOMAIN material_properties)

\* self.properties = material_properties, without copy(): the caller's object.
shared_ref(material_properties, fresh) == material_properties
\* The reference __init__ stores in self.properties:
\* material_properties.copy() is a new dict object, at address fresh.
properties_ref(material_properties, fresh) == fresh

\* thermal_conductivity / density, without the specific heat.
diffusivity_per_density(props) ==
    Rat(props["thermal_conductivity"], props["density"])
\* thermal_conductivity / (density * specific_heat)
derive_diffusivity(props) ==
    Rat(props["thermal_conductivity"], props["density"] * props["specific_heat"])

\* ThermalSimulation(room_dimensions, material_properties, system_type)
\* assigned to the caller's variable s; mp is the address of the mapping.
Construct(s, room_dimensions, mp, system_type) ==
    /\ pc = "idle"
    /\ sims[s] = NoSim
    /\ heap[mp] # NoObj
    /\ LET missing == missing_props(heap[mp])
           ref == properties_ref(mp, FreshAddr)
           copied == [heap EXCEPT ![ref] = heap[mp]]
           needs == "thermal_diffusivity" \notin DOMAIN copied[ref]
       IN  IF missing # <<>>
           THEN /\ last' = Outcome("__init__", s, <<room_dimensions, mp, system_type>>,
                                   "raise", "ValueError", missing)
                /\ UNCHANGED <<heap, sims>>
           ELSE IF needs /\ derive_diffusivity(copied[ref]).den = 0
           THEN /\ last' = Outcome("__init__", s, <<room_dimensions, mp, system_type>>,
                                   "raise", "ZeroDivisionError", <<>>)
                /\ UNCHANGED <<heap, sims>>
           ELSE /\ heap' = IF needs
                           THEN [copied EXCEPT ![ref] =
                                    dict_set(@, "thermal_diffusivity",
                                             derive_diffusivity(copied[ref]))]
                           ELSE copied
                /\ sims' = [sims EXCEPT ![s] =
                              [dimensions |-> room_dimensions,
                               properties |-> ref,
                               system_type |-> system_type,
                               grid_size |-> <<GridRows, GridCols>>,
                               attrs |-> <<>>]]
                /\ last' = Outcome("__init__", s, <<room_dimensions, mp, system_type>>,
                                   "return", "", <<>>)
    /\ UNCHANGED <<pc, call, T, t, received>>

\* The caller changes an entry of one of its mappings (props.update(...) of
\* main, or any later assignment).
MutateCaller(mp, key, val) ==
    /\ pc = "idle"
    /\ heap[mp] # NoObj
    /\ dict_get(heap[mp], key, val + 1) # val
    /\ heap' = [heap EXCEPT ![mp] = dict_set(@, key, val)]
    /\ last' = Outcome("caller_update", 0, <<mp, key, val>>, "return", "", <<>>)
    /\ UNCHANGED <<sims, pc, call, T, t, received>>

\* sim.properties[key] = val, on the simulation's own record.
MutateSim(s, key, val) ==
    /\ pc = "idle"
    /\ sims[s] # NoSim
    /\ dict_get(heap[sims[s].properties], key, val + 1) # val
    /\ heap' = [heap EXCEPT ![sims[s].properties] = dict_set(@, key, val)]
    /\ last' = Outcome("sim_update", s, <<key, val>>, "return", "", <<>>)
    /\ UNCHANGED <<sims, pc, call, T, t, received>>

\* ------------------------------------------------------------------------
\* MaterialDatabase.calculate_thermal_diffusivity

\* material['thermal_conductivity'] / (material['density'] * material['specific_heat'])
material_diffusivity(material) ==
    Rat(material["thermal_conductivity"], material["density"] * material["specific_heat"])

\* The call on the caller's mapping mp; the keys are read in the order
\* thermal_conductivity, density, specific_heat.
calculate_thermal_diffusivity(mp) ==
    /\ pc = "idle"
    /\ heap[mp] # NoObj
    /\ LET absent == SelectSeq(<<"thermal_conductivity", "density", "specific_heat">>,
                               LAMBDA key : key \notin DOMAIN heap[mp])
       IN  last' = IF absent # <<>>
                   THEN Outcome("calculate_thermal_diffusivity", 0, <<mp>>, "raise",
                                "KeyError", <<absent[1]>>)
                   ELSE IF material_diffusivity(heap[mp]).den = 0
                   THEN Outcome("calculate_thermal_diffusivity", 0, <<mp>>, "raise",
                                "ZeroDivisionError", <<>>)
                   ELSE Outcome("calculate_thermal_diffusivity", 0, <<mp>>, "return", "",
                                material_diffusivity(heap[mp]))
    /\ UNCHANGED <<heap, sims, pc, call, T, t, received>>

\* ------------------------------------------------------------------------
\* ThermalSimulation.update_system_params

hypocaust_keys == <<"pillar_height", "pillar_spacing", "chamber_height">>
modern_keys ==
    <<"radiator_height", "radiator_width", "radiator_placement", "pipe_diameter">>

\* self.<key> = params[key] for the keys in order, up to the first key that
\* params lacks (a KeyError leaves the earlier assignments in place).
RECURSIVE assign_attrs(_, _, _, _)
assign_attrs(attrs, keys, k, params) ==
    IF k > Len(keys) \/ keys[k] \notin DOMAIN params THEN attrs
    ELSE assign_attrs(dict_set(attrs, keys[k], params[keys[k]]), keys, k + 1, params)

update_system_params(s, params) ==
    /\ pc = "idle"
    /\ sims[s] # NoSim
    /\ LET keys == IF sims[s].system_type = "hypocaust"
                   THEN hypocaust_keys ELSE modern_keys
           absent == SelectSeq(keys, LAMBDA key : key \notin DOMAIN params)
           attrs1 == dict_set(sims[s].attrs, "system_params", params)
       IN  /\ sims' = [sims EXCEPT ![s].attrs = assign_attrs(attrs1, keys, 1, params)]
           /\ last' = IF absent = <<>>
                      THEN Outcome("update_system_params", s, <<params>>, "return", "", <<>>)
                      ELSE Outcome("update_system_params", s, <<params>>, "raise",
                                   "KeyError", <<absent[1]>>)
    /\ UNCHANGED <<heap, pc, call, T, t, received>>

\* ------------------------------------------------------------------------
\* ThermalSimulation.calculate_heat_transfer: grid initialisation

\* First index of the Python slice [start:] and [:stop] on an axis of n.
PyIndex(v, n) == IF v < 0 THEN Max(v + n, 0) ELSE Min(v, n)

\* int(metres * cells / room): metres a rational, room an integer.
to_cells(metres, cells, room) == TruncDiv(metres.num * cells, metres.den * room)

\* np.linspace(start, stop, num)[k], as Scale0 * value, for num >= 1.
linspace(start, stop, num, k) ==
    IF num = 1 THEN Scale0 * start
    ELSE Scale0 * start + k * (stop - start) * (Scale0 \div (num - 1))

Raise(exc, val) == [kind |-> "raise", exc |-> exc, val |-> val, grid |-> NoField]
Grid(g) == [kind |-> "ok", exc |-> "", val |-> <<>>, grid |-> g]

\* The field of the hypocaust branch: in every pillar column the bottom
\* chamber_cells rows are set to source_temp, then the bottom pillar_cells
\* rows are overwritten with the linear gradient.
hypocaust_cell(i, j, N0, spacing, chamber_cells, pillar_cells, initial_temp, source_temp) ==
    IF j % spacing # 0 \/ j >= N0 THEN Scale0 * initial_temp
    ELSE IF i >= PyIndex(-pillar_cells, N0)
         THEN linspace(initial_temp, source_temp, pillar_cells,
                       i - PyIndex(-pillar_cells, N0))
         ELSE IF i >= PyIndex(-chamber_cells, N0)
              THEN Scale0 * source_temp
              ELSE Scale0 * initial_temp

hypocaust_grid(sim, props, initial_temp) ==
    LET N0 == sim.grid_size[1]
        N1 == sim.grid_size[2]
        a == sim.attrs
    IN  IF "pillar_spacing" \notin DOMAIN a
        THEN Raise("AttributeError", <<"pillar_spacing">>)
        ELSE IF sim.dimensions[1] = 0 THEN Raise("ZeroDivisionError", <<>>)
        ELSE LET spacing == to_cells(a["pillar_spacing"], N0, sim.dimensions[1])
        IN  IF spacing = 0 THEN Raise("ValueError", <<"range">>)
            ELSE IF spacing < 0
            THEN Grid([i \in 0..N0-1 |-> [j \in 0..N1-1 |-> Num(Scale0 * initial_temp)]])
            ELSE IF "chamber_height" \notin DOMAIN a
            THEN Raise("AttributeError", <<"chamber_height">>)
            ELSE IF sim.dimensions[2] = 0 THEN Raise("ZeroDivisionError", <<>>)
            ELSE IF "source_temp" \notin DOMAIN props
            THEN Raise("KeyError", <<"source_temp">>)
            ELSE IF "pillar_height" \notin DOMAIN a
            THEN Raise("AttributeError", <<"pillar_height">>)
            ELSE LET chamber_cells == to_cells(a["chamber_height"], N1, sim.dimensions[2])
                     pillar_cells == to_cells(a["pillar_height"], N1, sim.dimensions[2])
                 IN  IF pillar_cells < 0 THEN Raise("ValueError", <<"linspace">>)
                     ELSE IF pillar_cells # 1
                             /\ N0 - PyIndex(-pillar_cells, N0) # pillar_cells
                     THEN Raise("ValueError", <<"broadcast">>)
                     ELSE IF \E x \in 0..N0-1 : x % spacing = 0 /\ x >= N1
                     THEN Raise("IndexError", <<>>)
                     ELSE Grid([i \in 0..N0-1 |-> [j \in 0..N1-1 |->
                            Num(hypocaust_cell(i, j, N0, spacing, chamber_cells,
                                               pillar_cells, initial_temp,
                                               props["source_temp"]))]])

\* The field of the modern branch: one block of source_temp.
modern_cell(i, j, N0, N1, placement_cells, radiator_height_cells, radiator_width_cells, initial_temp, source_temp) ==
    IF /\ i >= PyIndex(placement_cells, N0)
       /\ i < PyIndex(placement_cells + radiator_height_cells, N0)
       /\ j >= PyIndex(0, N1)
       /\ j < PyIndex(radiator_width_cells, N1)
    THEN Scale0 * source_temp
    ELSE Scale0 * initial_temp

modern_grid(sim, props, initial_temp) ==
    LET N0 == sim.grid_size[1]
        N1 == sim.grid_size[2]
        a == sim.attrs
    IN  IF "radiator_height" \notin DOMAIN a
        THEN Raise("AttributeError", <<"radiator_height">>)
        ELSE IF sim.dimensions[1] = 0 THEN Raise("ZeroDivisionError", <<>>)
        ELSE IF "radiator_width" \notin DOMAIN a
        THEN Raise("AttributeError", <<"radiator_width">>)
        ELSE IF sim.dimensions[2] = 0 THEN Raise("ZeroDivisionError", <<>>)
        ELSE IF "radiator_placement" \notin DOMAIN a
        THEN Raise("AttributeError", <<"radiator_placement">>)
        ELSE IF "source_temp" \notin DOMAIN props
        THEN Raise("KeyError", <<"source_temp">>)
        ELSE LET radiator_height_cells == to_cells(a["radiator_height"], N0, sim.dimensions[1])
                 radiator_width_cells ==
                     Max(1, to_cells(a["radiator_width"], N1, sim.dimensions[2]))
                 placement_cells == to_cells(a["radiator_placement"], N0, sim.dimensions[1])
             IN  Grid([i \in 0..N0-1 |-> [j \in 0..N1-1 |->
                    Num(modern_cell(i, j, N0, N1, placement_cells, radiator_height_cells,
                                    radiator_width_cells, initial_temp,
                                    props["source_temp"]))]])

\* Lines 44-71: dx, dy, alpha, dt, then the initial field or the exception.
initial_field(sim, props, initial_temp) ==
    IF props["thermal_diffusivity"].num = 0 THEN Raise("ZeroDivisionError", <<>>)
    ELSE IF sim.system_type = "hypocaust"
         THEN hypocaust_grid(sim, props, initial_temp)
         ELSE modern_grid(sim, props, initial_temp)

\* ------------------------------------------------------------------------
\* ThermalSimulation.calculate_heat_transfer: time stepping

\* dx, dy = self.dimensions[0]/self.grid_size[0], self.dimensions[1]/self.grid_size[1]
grid_spacing(sim) ==
    <<RatNorm(Rat(sim.dimensions[1], sim.grid_size[1])),
      RatNorm(Rat(sim.dimensions[2], sim.grid_size[2]))>>

RatMin(x, y) == IF RatLeq(x, y) THEN x ELSE y

\* A time step of 0.5 * min(dx, dy)**2 / alpha.
time_step_half(dx, dy, alpha) ==
    RatDiv(RatMul(Rat(1, 2), RatMul(RatMin(dx, dy), RatMin(dx, dy))), alpha)
\* dt = 0.25 * min(dx, dy)**2 / alpha
time_step(dx, dy, alpha) ==
    RatDiv(RatMul(Rat(1, 4), RatMul(RatMin(dx, dy), RatMin(dx, dy))), alpha)

\* dx = A / (N0 * N1) and dy = B / (N0 * N1), reduced by their common factor.
axis_A(sim) ==
    (sim.dimensions[1] * sim.grid_size[2])
        \div GCD(sim.dimensions[1] * sim.grid_size[2], sim.dimensions[2] * sim.grid_size[1])
axis_B(sim) ==
    (sim.dimensions[2] * sim.grid_size[1])
        \div GCD(sim.dimensions[1] * sim.grid_size[2], sim.dimensions[2] * sim.grid_size[1])

\* The scale of one step.  With m = min(A, B) the quotients
\* 0.25 * min(dx, dy)**2 / dx**2 = m*m / (4*A*A) and m*m / (4*B*B), and
\* their products with the convection factor 1.5 = 3/2, are integers over
\* the denominator StepDen.
step_common(sim) ==
    LET A == axis_A(sim)
        B == axis_B(sim)
        m == Min(A, B)
    IN  GCD(GCD(m * m * B * B, m * m * A * A), 8 * A * A * B * B)
StepDen(sim) == (8 * axis_A(sim) * axis_A(sim) * axis_B(sim) * axis_B(sim)) \div step_common(sim)
\* The factor of the update without the diffusivity: dt alone.
dt_alone(alpha, dt) == dt
\* The factor alpha * dt of the update (lines 82 and 89).
alpha_dt(alpha, dt) == RatMul(alpha, dt)

\* alpha * dt of a call on sim, from the simulation's diffusivity and the
\* time step computed from it.
alpha_dt_of(sim) ==
    LET alpha == heap[sim.properties]["thermal_diffusivity"]
    IN  alpha_dt(alpha, time_step(grid_spacing(sim)[1], grid_spacing(sim)[2], alpha))

\* StepDen * alpha * dt / dx**2 / 2 and StepDen * alpha * dt / dy**2 / 2,
\* both integers.
half_rx(sim) ==
    LET dx == grid_spacing(sim)[1]
        r == RatMul(RatInt(StepDen(sim)),
                    RatDiv(alpha_dt_of(sim), RatMul(RatInt(2), RatMul(dx, dx))))
    IN  r.num \div r.den
half_ry(sim) ==
    LET dy == grid_spacing(sim)[2]
        r == RatMul(RatInt(StepDen(sim)),
                    RatDiv(alpha_dt_of(sim), RatMul(RatInt(2), RatMul(dy, dy))))
    IN  r.num \div r.den

\* Twice the convection_factor of cell (i, j) on the row-axis term (first)
\* and on the column-axis term (second).
convection_factor2(sim, i, j) ==
    IF sim.system_type = "hypocaust"
    THEN <<IF i < sim.grid_size[1] - 1 THEN 3 ELSE 2, 2>>
    ELSE <<2, IF j > 0 THEN 3 ELSE 2>>

\* Whether the loops over i and j assign T_new[i, j].
updated(sim, i, j) ==
    /\ i >= 1 /\ i < sim.grid_size[1] - 1
    /\ j >= 1 /\ j < sim.grid_size[2] - 1

\* What the loops take from the locals dx, dy, alpha and dt, computed once
\* per call (lines 44-46): alpha*dt/dx**2 and alpha*dt/dy**2, here halved
\* and times StepDen.
step_coefficients(sim) == [rx |-> half_rx(sim), ry |-> half_ry(sim), den |-> StepDen(sim)]

\* T[i,j] + alpha*dt*(cf_x*(T[i+1,j] - 2*T[i,j] + T[i-1,j])/dx**2
\*                    + cf_y*(T[i,j+1] - 2*T[i,j] + T[i,j-1])/dy**2),
\* times StepDen, with cf the pair of twice cf_x and twice cf_y; every
\* operand is read from the old field U.
weighted_sum(U, i, j, ax, ay, den) ==
    Carry([k \in 1..Limbs |->
        (den - 2 * ax - 2 * ay) * U[i][j][k] + ax * (U[i+1][j][k] + U[i-1][j][k])
                                             + ay * (U[i][j+1][k] + U[i][j-1][k])])
five_point(co, U, i, j, cf) == weighted_sum(U, i, j, cf[1] * co.rx, cf[2] * co.ry, co.den)

\* The assignment to T_new[i,j] of lines 82-85 and 89-92.
new_cell(sim, co, U, i, j) == five_point(co, U, i, j, convection_factor2(sim, i, j))

\* A step that gives every ring cell the value of the nearest interior cell.
step_field_adiabatic(sim, U) ==
    LET co == step_coefficients(sim)
    IN  [i \in 0..sim.grid_size[1]-1 |-> [j \in 0..sim.grid_size[2]-1 |->
            IF updated(sim, i, j) THEN new_cell(sim, co, U, i, j)
            ELSE NumScale(co.den, U[Min(Max(i, 1), sim.grid_size[1] - 2)]
                                   [Min(Max(j, 1), sim.grid_size[2] - 2)])]]
\* One iteration of the loop over t: T_new = T.copy(), the interior
\* update, T = T_new.  The result is on the scale of t + 1.
step_field(sim, U) ==
    LET co == step_coefficients(sim)
    IN  [i \in 0..sim.grid_size[1]-1 |-> [j \in 0..sim.grid_size[2]-1 |->
            IF updated(sim, i, j) THEN new_cell(sim, co, U, i, j)
            ELSE NumScale(co.den, U[i][j])]]

\* x \div d for a multi-precision integer x >= 0 and a small d > 0.
RECURSIVE NumDivFrom(_, _, _, _)
NumDivFrom(x, d, k, rem) ==
    IF k = 0 THEN <<>>
    ELSE NumDivFrom(x, d, k - 1, (rem * Base + x[k]) % d)
             \o <<(rem * Base + x[k]) \div d>>

\* The buffer an in-place update reads its operands from: T_new, whose
\* values are brought back to the scale of T_old.
read_new_buffer(sim, T_old, T_new) ==
    [i \in DOMAIN T_new |-> [j \in DOMAIN T_new[i] |->
        IF NumIsNeg(T_new[i][j]) THEN T_new[i][j]
        ELSE NumDivFrom(T_new[i][j], StepDen(sim), Limbs, 0)]]
\* The buffer an update reads its operands from: T, never T_new.
read_buffer(sim, T_old, T_new) == T_old

\* The loops as the interpreter runs them: T_new = T.copy(), then the cells
\* of the rows in row_order, each row in col_order, one assignment
\* T_new[i,j] = ... at a time.  (DOMAIN T_new is never empty: the test
\* makes the evaluator compute T_new before it goes on.)
RECURSIVE copy_row(_, _, _, _)
copy_row(co, T_new, i, j) ==
    IF j \notin DOMAIN T_new[i] \/ DOMAIN T_new = {} THEN T_new
    ELSE copy_row(co, [T_new EXCEPT ![i][j] = NumScale(co.den, @)], i, j + 1)
RECURSIVE copy_rows(_, _, _)
copy_rows(co, T_new, i) ==
    IF i \notin DOMAIN T_new \/ DOMAIN T_new = {} THEN T_new
    ELSE copy_rows(co, copy_row(co, T_new, i, 0), i + 1)
RECURSIVE visit_row(_, _, _, _, _, _, _)
visit_row(sim, co, T_old, T_new, i, col_order, k) ==
    IF k > Len(col_order) \/ DOMAIN T_new = {} THEN T_new
    ELSE visit_row(sim, co, T_old,
                   [T_new EXCEPT ![i][col_order[k]] =
                        new_cell(sim, co, read_buffer(sim, T_old, T_new), i, col_order[k])],
                   i, col_order, k + 1)
RECURSIVE visit_rows(_, _, _, _, _, _, _)
visit_rows(sim, co, T_old, T_new, row_order, col_order, k) ==
    IF k > Len(row_order) \/ DOMAIN T_new = {} THEN T_new
    ELSE visit_rows(sim, co, T_old,
                    visit_row(sim, co, T_old, T_new, row_order[k], col_order, 1),
                    row_order, col_order, k + 1)
loop_pass(sim, U, row_order, col_order) ==
    LET co == step_coefficients(sim)
    IN  visit_rows(sim, co, U, copy_rows(co, U, 0), row_order, col_order, 1)

\* range(1, n - 1) and the same indices in descending order.
index_range(n) == [k \in 1..(n - 2) |-> k]
index_range_reversed(n) == [k \in 1..(n - 2) |-> n - 1 - k]

\* A field that goes on from the one the previous call left.
resumed_field(previous, fresh) == IF previous = NoField THEN fresh ELSE previous
\* T = np.ones(self.grid_size) * initial_temp and the boundary conditions:
\* the local T of a call is the newly built array, whatever an earlier call
\* left.
allocated_field(previous, fresh) == fresh

\* The call: lines 44-71.
HeatCall(s, initial_temp, time_steps) ==
    /\ pc = "idle"
    /\ sims[s] # NoSim
    /\ LET r == initial_field(sims[s], heap[sims[s].properties], initial_temp)
       IN  IF r.kind = "raise"
           THEN /\ last' = Outcome("calculate_heat_transfer", s,
                                   <<initial_temp, time_steps>>, "raise", r.exc, r.val)
                /\ T' = NoField
                /\ UNCHANGED <<pc, call, t>>
           ELSE /\ pc' = "loop"
                /\ call' = [sim |-> s, initial_temp |-> initial_temp,
                            time_steps |-> time_steps]
                /\ T' = allocated_field(T, r.grid)
                /\ t' = 0
                /\ last' = Outcome("calculate_heat_transfer", s,
                                   <<initial_temp, time_steps>>, "running", "", <<>>)
    /\ UNCHANGED <<heap, sims, received>>

\* One iteration of "for t in range(time_steps)": lines 74-93.
HeatStep ==
    /\ pc = "loop"
    /\ t < call.time_steps
    /\ T' = step_field(sims[call.sim], T)
    /\ t' = t + 1
    /\ UNCHANGED <<heap, sims, pc, call, last, received>>

\* return T: line 95; the caller assigns the field to its variable
\* (hypocaust_temp, modern_temp of main).
HeatReturn ==
    /\ pc = "loop"
    /\ t = call.time_steps
    /\ pc' = "idle"
    /\ last' = Outcome("calculate_heat_transfer", call.sim,
                       <<call.initial_temp, call.time_steps>>, "return", "", <<>>)
    /\ received' = [sim |-> call.sim, initial_temp |-> call.initial_temp,
                    time_steps |-> call.time_steps, field |-> T]
    /\ UNCHANGED <<heap, sims, call, T, t>>

\* ------------------------------------------------------------------------
\* ThermalSimulation.calculate_efficiency

\* np.std is a square root; a value that depends on it is kept exact as
\* base + per_std * std, two rationals, with std**2 the variance below.
Surd(a, b) == [base |-> a, per_std |-> b]
SurdScale(c, x) == Surd(RatMul(c, x.base), RatMul(c, x.per_std))
RatSign(x) ==
    IF RatNorm(x).num > 0 THEN 1 ELSE IF RatNorm(x).num < 0 THEN -1 ELSE 0
\* The sign of base + per_std * sqrt(variance).
SurdSign(x, variance) ==
    LET a == RatSign(x.base)
        b == IF RatSign(variance) = 0 THEN 0 ELSE RatSign(x.per_std)
        squares == RatSign(RatSub(RatMul(x.base, x.base),
                                  RatMul(RatMul(x.per_std, x.per_std), variance)))
    IN  IF b = 0 THEN a
        ELSE IF a = 0 \/ a = b THEN b
        ELSE a * squares

\* np.mean and np.std**2 of a distribution given as a sequence of integers.
RECURSIVE seq_sum(_, _)
seq_sum(seq, n) == IF n = 0 THEN 0 ELSE seq[n] + seq_sum(seq, n - 1)
field_mean(distribution) == RatNorm(Rat(seq_sum(distribution, Len(distribution)), Len(distribution)))
field_variance(distribution) ==
    LET squares == [k \in 1..Len(distribution) |-> distribution[k] * distribution[k]]
    IN  RatSub(RatNorm(Rat(seq_sum(squares, Len(squares)), Len(squares))),
               RatMul(field_mean(distribution), field_mean(distribution)))

\* A factor of 1.0 for either system.
no_derating(system_type) == Rat(1, 1)
\* system_factor = 0.9 if self.system_type == 'hypocaust' else 1.0
system_factor(system_type) == IF system_type = "hypocaust" THEN Rat(9, 10) ELSE Rat(1, 1)

\* The returned dict for a distribution whose mean is not zero.
efficiency_report(sim, props, distribution) ==
    LET mean_temp == field_mean(distribution)
        temp_uniformity == Surd(RatInt(1), RatNeg(RatDiv(RatInt(1), mean_temp)))
    IN  [mean_temperature |-> mean_temp,
         uniformity |-> temp_uniformity,
         efficiency |->
            SurdScale(RatDiv(mean_temp, RatInt(props["source_temp"])),
                      SurdScale(system_factor(sim.system_type), temp_uniformity))]

\* The call.  A zero mean or a zero source_temp divides a numpy float by
\* zero, which returns inf or nan entries instead of raising.
calculate_efficiency(s, temperature_distribution) ==
    /\ pc = "idle"
    /\ sims[s] # NoSim
    /\ LET props == heap[sims[s].properties]
       IN  last' = IF "source_temp" \notin DOMAIN props
                   THEN Outcome("calculate_efficiency", s, <<temperature_distribution>>,
                                "raise", "KeyError", <<"source_temp">>)
                   ELSE IF field_mean(temperature_distribution).num = 0
                           \/ props["source_temp"] = 0
                   THEN Outcome("calculate_efficiency", s, <<temperature_distribution>>,
                                "return", "",
                                [mean_temperature |-> field_mean(temperature_distribution),
                                 nonfinite |-> TRUE])
                   ELSE Outcome("calculate_efficiency", s, <<temperature_distribution>>,
                                "return", "",
                                efficiency_report(sims[s], props, temperature_distribution))
    /\ UNCHANGED <<heap, sims, pc, call, T, t, received>>

\* ------------------------------------------------------------------------
\* ThermalSimulation.calculate_embodied_carbon, calculate_maintenance_impact

\* embodied_carbon_factors.get(material_type, 200)
embodied_carbon_factor(material_type) ==
    CASE material_type = "roman_concrete" -> 95
      [] material_type = "roman_brick" -> 150
      [] material_type = "tuff_stone" -> 70
      [] material_type = "marble" -> 180
      [] material_type = "concrete" -> 350
      [] material_type = "brick" -> 280
      [] material_type = "mineral_wool" -> 45
      [] material_type = "steel" -> 12500
      [] material_type = "copper" -> 7850
      [] OTHER -> 200

calculate_embodied_carbon(props, material_volume) ==
    RatMul(RatInt(embodied_carbon_factor(dict_get(props, "material_type", "concrete"))),
           material_volume)

\* sum(annual_maintenance.values()) * lifespan_years
calculate_maintenance_impact(system_type, lifespan_years) ==
    IF system_type = "hypocaust"
    THEN (5 + 15 + 10) * lifespan_years
    ELSE (2 + 25 + 20 + 8) * lifespan_years

\* ------------------------------------------------------------------------
\* ThermalSimulation.calculate_co2_emissions

\* emissions_factors, kgCO2/kWh
FuelTable == {"natural_gas", "electricity", "wood"}
emissions_factors(fuel) ==
    CASE fuel = "natural_gas" -> Rat(2, 10)
      [] fuel = "electricity" -> Rat(5, 10)
      [] fuel = "wood" -> Rat(1, 10)

\* np.pi, to seven digits.
pi == Rat(355, 113)

\* Lines 168-173: the system volume, or the exception of its evaluation.
system_volume(sim) ==
    LET a == sim.attrs
        L == RatInt(sim.dimensions[1])
        W == RatInt(sim.dimensions[2])
        first_unset(keys) == SelectSeq(keys, LAMBDA key : key \notin DOMAIN a)
    IN  IF sim.system_type = "hypocaust"
        THEN LET unset == first_unset(<<"chamber_height", "pillar_height", "pillar_spacing">>)
             IN  IF unset # <<>> THEN Raise("AttributeError", <<unset[1]>>)
                 ELSE IF a["pillar_spacing"].num = 0 THEN Raise("ZeroDivisionError", <<>>)
                 ELSE [kind |-> "ok", val |->
                         RatAdd(RatMul(RatMul(L, W), a["chamber_height"]),
                                RatMul(RatMul(a["pillar_height"], RatMul(Rat(2, 10), Rat(2, 10))),
                                       RatDiv(L, a["pillar_spacing"])))]
        ELSE LET unset == first_unset(<<"radiator_height", "radiator_width", "pipe_diameter">>)
             IN  IF unset # <<>> THEN Raise("AttributeError", <<unset[1]>>)
                 ELSE [kind |-> "ok", val |->
                         RatAdd(RatMul(RatMul(a["radiator_height"], a["radiator_width"]),
                                       Rat(1, 10)),
                                RatMul(RatMul(pi, RatMul(RatDiv(a["pipe_diameter"], RatInt(2)),
                                                         RatDiv(a["pipe_diameter"], RatInt(2)))),
                                       RatAdd(L, W)))]

\* A net total that leaves the offset out.
net_without_offset(operational_emissions, embodied_carbon, maintenance_impact, carbon_offset) ==
    RatAdd(RatAdd(operational_emissions, embodied_carbon), maintenance_impact)
\* operational_emissions + embodied_carbon + maintenance_impact - carbon_offset
net_emissions(operational_emissions, embodied_carbon, maintenance_impact, carbon_offset) ==
    RatSub(RatAdd(RatAdd(operational_emissions, embodied_carbon), maintenance_impact),
           carbon_offset)

\* A share of 0.2 for the sources other than the configured fuel.
source_weight_fifth(source, fuel_type) ==
    IF source = fuel_type THEN Rat(8, 10) ELSE Rat(2, 10)
\* 0.8 if source == fuel_type else 0.1 (line 194)
source_weight(source, fuel_type) ==
    IF source = fuel_type THEN Rat(8, 10) ELSE Rat(1, 10)

\* One offset fraction, 0.15, for either system.
offset_factor_shared(system_type) == Rat(15, 100)
\* offset_factor = 0.15 for hypocaust, 0.1 otherwise (lines 182-187)
offset_factor(system_type) == IF system_type = "hypocaust" THEN Rat(15, 100) ELSE Rat(1, 10)

\* The returned breakdown; power_consumption a rational, duration_hours an
\* integer.
co2_report(sim, props, power_consumption, duration_hours, volume) ==
    LET fuel_type == dict_get(props, "fuel_type", "natural_gas")
        emission_factor == IF fuel_type \in FuelTable
                           THEN emissions_factors(fuel_type) ELSE Rat(2, 10)
        operational_emissions ==
            RatMul(RatMul(power_consumption, emission_factor), RatInt(duration_hours))
        embodied_carbon == calculate_embodied_carbon(props, volume)
        maintenance_impact == RatInt(calculate_maintenance_impact(sim.system_type, 1))
        carbon_offset == RatMul(operational_emissions, offset_factor(sim.system_type))
    IN  [operational |->
            [source \in FuelTable |->
                RatMul(operational_emissions, source_weight(source, fuel_type))],
         embodied_carbon |-> embodied_carbon,
         maintenance_impact |-> maintenance_impact,
         carbon_offset |-> carbon_offset,
         net_emissions |->
            net_emissions(operational_emissions, embodied_carbon, maintenance_impact,
                          carbon_offset)]

calculate_co2_emissions(s, power_consumption, duration_hours) ==
    /\ pc = "idle"
    /\ sims[s] # NoSim
    /\ LET v == system_volume(sims[s])
       IN  last' = IF v.kind = "raise"
                   THEN Outcome("calculate_co2_emissions", s,
                                <<power_consumption, duration_hours>>, "raise", v.exc, v.val)
                   ELSE Outcome("calculate_co2_emissions", s,
                                <<power_consumption, duration_hours>>, "return", "",
                                co2_report(sims[s], heap[sims[s].properties],
                                           power_consumption, duration_hours, v.val))
    /\ UNCHANGED <<heap, sims, pc, call, T, t, received>>

\* ------------------------------------------------------------------------
\* utils.calculate_power_consumption

\* c_air = 1.005 kJ/kg.C and rho_air = 1.225 kg/m3
c_air == Rat(1005, 1000)
rho_air == Rat(1225, 1000)

\* A conversion that multiplies by the efficiency.
power_times_efficiency(volume, temp_diff, efficiency) ==
    RatMul(RatDiv(RatMul(RatMul(RatMul(volume, rho_air), c_air), temp_diff), RatInt(3600)),
           efficiency)
\* energy = volume * rho_air * c_air * temp_diff; (energy / 3600) / efficiency
power_consumption(volume, temp_diff, efficiency) ==
    RatDiv(RatDiv(RatMul(RatMul(RatMul(volume, rho_air), c_air), temp_diff), RatInt(3600)),
           efficiency)

\* The call; the arguments are rationals.  Dividing by a zero efficiency
\* raises ZeroDivisionError.
calculate_power_consumption(volume, temp_diff, efficiency) ==
    /\ pc = "idle"
    /\ last' = IF efficiency.num = 0
               THEN Outcome("calculate_power_consumption", 0,
                            <<volume, temp_diff, efficiency>>, "raise",
                            "ZeroDivisionError", <<>>)
               ELSE Outcome("calculate_power_consumption", 0,
                            <<volume, temp_diff, efficiency>>, "return", "",
                            power_consumption(volume, temp_diff, efficiency))
    /\ UNCHANGED <<heap, sims, pc, call, T, t, received>>

\* ------------------------------------------------------------------------
\* ThermalSimulation.calculate_hourly_energy_retention

\* 1000 * sin(pi * k / 12), k = 0..24, rounded.
sin_table ==
    <<0, 259, 500, 707, 866, 966, 1000, 966, 866, 707, 500, 259, 0,
      -259, -500, -707, -866, -966, -1000, -966, -866, -707, -500, -259, 0>>

\* 1000 * np.sin(np.linspace(0, 2*np.pi, hours))[k] for hours - 1 a divisor
\* of 24; np.linspace(0, 2*np.pi, 1) is [0].
sin_milli(hours, k) ==
    IF hours = 1 THEN 0 ELSE sin_table[k * (24 \div (hours - 1)) + 1]

\* The value as it is, without limits.
unclipped(x, lo, hi) == x
\* np.clip(x, lo, hi)
clip(x, lo, hi) == IF x < lo THEN lo ELSE IF x > hi THEN hi ELSE x

\* The curve in thousandths of a percent; noise[k+1] is the value, in
\* thousandths, np.random.normal(0, 2, hours) drew for hour k.
retention_curve(system_type, hours, noise) ==
    [k \in 1..hours |->
        clip((IF system_type = "hypocaust" THEN 85000 ELSE 75000)
               + (IF system_type = "hypocaust" THEN 10 ELSE 15) * sin_milli(hours, k - 1)
               + noise[k],
             20000, 100000)]

calculate_hourly_energy_retention(s, initial_temp, duration_hours, noise) ==
    /\ pc = "idle"
    /\ sims[s] # NoSim
    /\ LET hours == duration_hours + 1
       IN  /\ Len(noise) = Max(hours, 0)
           /\ last' = IF hours < 0
                      THEN Outcome("calculate_hourly_energy_retention", s,
                                   <<initial_temp, duration_hours>>, "raise",
                                   "ValueError", <<"linspace">>)
                      ELSE Outcome("calculate_hourly_energy_retention", s,
                                   <<initial_temp, duration_hours>>, "return", "",
                                   [time_points |-> [k \in 1..hours |-> k - 1],
                                    retention |->
                                        retention_curve(sims[s].system_type, hours, noise)])
    /\ UNCHANGED <<heap, sims, pc, call, T, t, received>>

\* ------------------------------------------------------------------------
\* The field as temperatures

\* Scale0 * StepDen^n * temp: the integer that stands for temp after n steps.
at_scale(sim, n, temp) == NumScale(temp, NumScale(Scale0, NumPow(StepDen(sim), n)))

RECURSIVE row_sum(_, _, _)
row_sum(row, j, k) == IF j < 0 THEN 0 ELSE row[j][k] + row_sum(row, j - 1, k)
RECURSIVE rows_sum(_, _, _)
rows_sum(rows, i, k) == IF i < 0 THEN 0 ELSE rows[i][k] + rows_sum(rows, i - 1, k)

\* np.sum of the field (np.mean is this over the number of cells).
field_sum(sim, U) ==
    LET rows == [i \in 0..sim.grid_size[1]-1 |->
                   Carry([k \in 1..Limbs |-> row_sum(U[i], sim.grid_size[2] - 1, k)])]
    IN  Carry([k \in 1..Limbs |-> rows_sum(rows, sim.grid_size[1] - 1, k)])

\* The sum a field of the constant temp would have after n steps.
uniform_sum(sim, n, temp) ==
    NumScale(sim.grid_size[1], NumScale(sim.grid_size[2], at_scale(sim, n, temp)))

\* ------------------------------------------------------------------------
\* Inputs

\* Rooms (length, width) in metres: main's default, a square room, an oblong
\* one, and rooms with a dimension that is not positive.
Rooms == {<<10, 8>>, <<10, 10>>, <<20, 10>>, <<0, 10>>, <<-10, 10>>, <<10, 0>>}
SquareRooms == {<<10, 10>>}
SystemTypes == {"hypocaust", "modern"}
InitialTemps == {15}

HypocaustParams ==
    { [pillar_height |-> ph, pillar_spacing |-> ps, chamber_height |-> ch] :
        ph \in {Rat(1, 2), Rat(1, 10)}, ps \in {Rat(1, 1)},
        ch \in {Rat(1, 2), Rat(1, 1)} }
ModernParams ==
    { [radiator_height |-> rh, radiator_width |-> rw, radiator_placement |-> rp,
       pipe_diameter |-> Rat(15, 1000)] :
        rh \in {Rat(1, 1)}, rw \in {Rat(8, 10), Rat(1, 10)},
        rp \in {Rat(3, 10), Rat(1, 10)} }
ParamsOf(system_type) == IF system_type = "hypocaust" THEN HypocaustParams ELSE ModernParams

\* Parameters of the long runs.
LongHypocaustParams ==
    { [pillar_height |-> Rat(3, 10), pillar_spacing |-> Rat(1, 1),
       chamber_height |-> Rat(1, 2)] }
LongModernParams ==
    { [radiator_height |-> Rat(3, 10), radiator_width |-> rw,
       radiator_placement |-> rp, pipe_diameter |-> Rat(15, 1000)] :
        rw \in {Rat(6, 10), Rat(1, 1)}, rp \in {Rat(3, 10), Rat(1, 1)} }
LongParamsOf(system_type) ==
    IF system_type = "hypocaust" THEN LongHypocaustParams ELSE LongModernParams

\* A material record as main hands it to the constructor: the properties of
\* the material database and the entries main adds (lines 144-151).
Material(k, rho, c, source_temp) ==
    [thermal_conductivity |-> k, density |-> rho, specific_heat |-> c,
     source_temp |-> source_temp]

\* Material records with any of the required properties absent, negative or
\* zero, with and without a pre-supplied thermal_diffusivity.
RequiredSet == {"thermal_conductivity", "density", "specific_heat"}
PropValues == {-1, 0, 2}
MaterialOf(present, vals, diffusivity) ==
    [key \in present \cup {"source_temp"}
             \cup (IF diffusivity THEN {"thermal_diffusivity"} ELSE {}) |->
        IF key \in present THEN vals[key]
        ELSE IF key = "source_temp" THEN 80 ELSE Rat(1, 4)]
MaterialInputs ==
    UNION { { MaterialOf(present, vals, diffusivity) :
                vals \in [present -> PropValues], diffusivity \in BOOLEAN } :
            present \in SUBSET RequiredSet }

\* The heating materials of the database: copper_pipe, steel_radiator,
\* aluminum_radiator.
DatabaseMaterials ==
    {Material(401, 8960, 385, 80), Material(50, 7850, 460, 80), Material(237, 2700, 900, 80)}

\* Material records with the fuel and material entries of main.
FuelInputs == {"wood", "natural_gas", "electricity", "coal"}
FuelMaterial(fuel_type, material_type) ==
    [thermal_conductivity |-> 1, density |-> 2, specific_heat |-> 3,
     source_temp |-> 80, fuel_type |-> fuel_type, material_type |-> material_type]

\* Power consumptions in kWh, durations in hours.
PowerInputs == {RatInt(10), Rat(11, 2)}
Durations == {-2, -1, 0, 1, 2, 4, 24}
CO2Durations == {1, 24}

\* Room volumes in m3, temperature differences in C, efficiencies.
Volumes == {RatInt(240), RatInt(150)}
TempDiffs == {RatInt(65), RatInt(20), RatInt(-5)}
Efficiencies == {Rat(1, 2), Rat(65, 100), RatInt(1), RatInt(0), Rat(-1, 2), RatInt(-1)}

\* Draws of np.random.normal(0, 2, hours), in thousandths: the same value
\* every hour, or alternating in sign.
NoiseValues == {-70000, -2000, 0, 2000, 15000, 30000}
NoiseDraws(hours) ==
    IF hours <= 0 THEN {<<>>}
    ELSE { [k \in 1..hours |-> v] : v \in NoiseValues }
         \cup { [k \in 1..hours |-> IF k % 2 = 1 THEN v ELSE -v] : v \in NoiseValues }

\* ------------------------------------------------------------------------
\* Specifications

InitWith(materials) ==
    /\ heap \in { [a \in Addrs |-> IF a = 1 THEN m ELSE NoObj] : m \in materials }
    /\ sims = [s \in SimIds |-> NoSim]
    /\ pc = "idle"
    /\ call = NoCall
    /\ T = NoField
    /\ t = 0
    /\ last = Outcome("start", 0, <<>>, "return", "", <<>>)
    /\ received = NoResult

\* The solver, short runs: main builds a simulation, sets its system
\* parameters and runs the solver once on it.
InitHeat == InitWith({Material(1, 2, 3, 80)})

NextHeat ==
    \/ \E room \in Rooms, st \in SystemTypes : Construct(1, room, 1, st)
    \/ \E p \in HypocaustParams \cup ModernParams :
          /\ sims[1] # NoSim
          /\ p \in ParamsOf(sims[1].system_type)
          /\ last.op = "__init__"
          /\ update_system_params(1, p)
    \/ \E initial_temp \in InitialTemps, time_steps \in 0..MaxSteps :
          /\ last.op = "update_system_params"
          /\ HeatCall(1, initial_temp, time_steps)
    \/ HeatStep
    \/ HeatReturn
    \/ \E initial_temp \in InitialTemps, duration_hours \in Durations :
          \E noise \in NoiseDraws(duration_hours + 1) :
              /\ last.op = "update_system_params"
              /\ calculate_hourly_energy_retention(1, initial_temp, duration_hours, noise)

SpecHeat == InitHeat /\ [][NextHeat]_vars

\* The solver's loops, in valid rooms.
LoopRooms == {<<10, 8>>, <<10, 10>>, <<20, 10>>}

NextLoop ==
    \/ \E room \in LoopRooms, st \in SystemTypes : Construct(1, room, 1, st)
    \/ \E p \in HypocaustParams \cup ModernParams :
          /\ sims[1] # NoSim
          /\ p \in ParamsOf(sims[1].system_type)
          /\ last.op = "__init__"
          /\ update_system_params(1, p)
    \/ \E initial_temp \in InitialTemps, time_steps \in 0..1 :
          /\ last.op = "update_system_params"
          /\ HeatCall(1, initial_temp, time_steps)
    \/ HeatStep
    \/ HeatReturn

SpecLoop == InitHeat /\ [][NextLoop]_vars

\* The grid initialisation alone, over the ranges of main's inputs: rooms
\* of 5 to 20 m, radiators of 0.3 to 2 m placed at 0.1 to 2 m.
InitRooms == {<<5, 5>>, <<10, 8>>, <<20, 10>>, <<20, 20>>}
InitModernParams ==
    { [radiator_height |-> rh, radiator_width |-> rw, radiator_placement |-> rp,
       pipe_diameter |-> Rat(15, 1000)] :
        rh \in {Rat(3, 10), Rat(1, 1), Rat(2, 1)}, rw \in {Rat(3, 10), Rat(8, 10)},
        rp \in {Rat(1, 10), Rat(3, 10), Rat(2, 1)} }
InitParamsOf(system_type) ==
    IF system_type = "hypocaust" THEN HypocaustParams ELSE InitModernParams

NextInit ==
    \/ \E room \in InitRooms, st \in SystemTypes : Construct(1, room, 1, st)
    \/ \E p \in HypocaustParams \cup InitModernParams :
          /\ sims[1] # NoSim
          /\ p \in InitParamsOf(sims[1].system_type)
          /\ last.op = "__init__"
          /\ update_system_params(1, p)
    \/ \E initial_temp \in InitialTemps :
          /\ last.op = "update_system_params"
          /\ HeatCall(1, initial_temp, 0)
    \/ HeatReturn

SpecInit == InitHeat /\ [][NextInit]_vars

\* The solver called again and again on one simulation, as a caller that
\* re-runs it with the same or another initial temperature does.
RepeatTemps == {15, 20}

NextRepeat ==
    \/ \E st \in SystemTypes : Construct(1, <<10, 8>>, 1, st)
    \/ \E p \in HypocaustParams \cup ModernParams :
          /\ sims[1] # NoSim
          /\ p \in ParamsOf(sims[1].system_type)
          /\ last.op = "__init__"
          /\ update_system_params(1, p)
    \/ \E initial_temp \in RepeatTemps, time_steps \in 0..1 :
          /\ \/ last.op = "update_system_params"
             \/ last.op = "calculate_heat_transfer" /\ last.kind = "return"
          /\ HeatCall(1, initial_temp, time_steps)
    \/ HeatStep
    \/ HeatReturn

SpecRepeat == InitHeat /\ [][NextRepeat]_vars

\* Two simulations that differ in the diffusivity only: the second is built
\* like the first after the caller changed the thermal conductivity of its
\* record, and is run with the parameters of the first.
InitAlpha == InitWith({Material(6, 2, 3, 80)})
Conductivities == {12, 18}

NextAlpha ==
    \/ \E st \in SystemTypes : Construct(1, <<10, 8>>, 1, st)
    \/ \E p \in HypocaustParams \cup ModernParams :
          /\ sims[1] # NoSim
          /\ p \in ParamsOf(sims[1].system_type)
          /\ last.op = "__init__" /\ last.sim = 1
          /\ update_system_params(1, p)
    \/ \E s \in SimIds, initial_temp \in InitialTemps, time_steps \in 0..1 :
          /\ last.op = "update_system_params" /\ last.sim = s
          /\ HeatCall(s, initial_temp, time_steps)
    \/ HeatStep
    \/ HeatReturn
    \/ \E val \in Conductivities :
          /\ last.op = "calculate_heat_transfer" /\ last.kind = "return" /\ last.sim = 1
          /\ MutateCaller(1, "thermal_conductivity", val)
    \/ /\ sims[1] # NoSim
       /\ \/ last.op = "caller_update"
          \/ last.op = "calculate_heat_transfer" /\ last.kind = "return" /\ last.sim = 1
       /\ Construct(2, sims[1].dimensions, 1, sims[1].system_type)
    \/ /\ last.op = "__init__" /\ last.sim = 2
       /\ update_system_params(2, sims[1].attrs["system_params"])

SpecAlpha == InitAlpha /\ [][NextAlpha]_vars

\* The calls in any order: parameters of either system, complete or with a
\* key left out, handed to a simulation of either type before or after the
\* solver and the CO2 accounting are called on it.
restrict(params, keys) == [key \in keys |-> params[key]]
OrderParams ==
    LET hypocaust == { p \in HypocaustParams : p.pillar_height = Rat(1, 2) }
        modern == { p \in ModernParams : p.radiator_placement = Rat(3, 10) }
    IN  hypocaust \cup modern
        \cup { restrict(p, {"pillar_height", "pillar_spacing"}) : p \in hypocaust }
        \cup { restrict(p, {"pillar_spacing", "chamber_height"}) : p \in hypocaust }
        \cup { restrict(p, {"radiator_height", "radiator_width", "radiator_placement"}) :
                  p \in modern }
        \cup { restrict(p, {"radiator_width", "radiator_placement", "pipe_diameter"}) :
                  p \in modern }

NextOrder ==
    \/ \E st \in SystemTypes : Construct(1, <<10, 8>>, 1, st)
    \/ \E p \in OrderParams : update_system_params(1, p)
    \/ \E initial_temp \in InitialTemps : HeatCall(1, initial_temp, 1)
    \/ HeatStep
    \/ HeatReturn
    \/ calculate_co2_emissions(1, RatInt(10), 24)

SpecOrder == InitHeat /\ [][NextOrder]_vars

\* The solver, long runs in a square room.
NextLong ==
    \/ \E room \in SquareRooms, st \in SystemTypes : Construct(1, room, 1, st)
    \/ \E p \in LongHypocaustParams \cup LongModernParams :
          /\ sims[1] # NoSim
          /\ p \in LongParamsOf(sims[1].system_type)
          /\ last.op = "__init__"
          /\ update_system_params(1, p)
    \/ \E initial_temp \in InitialTemps :
          /\ last.op = "update_system_params"
          /\ HeatCall(1, initial_temp, LongSteps)
    \/ HeatStep
    \/ HeatReturn

SpecLong == InitHeat /\ [][NextLong]_vars

\* The solver's time step over a sweep of rooms and materials.
StepRooms == {<<5, 5>>, <<10, 8>>, <<5, 20>>, <<20, 5>>, <<15, 5>>, <<20, 15>>, <<5, 10>>}
StepMaterials ==
    { Material(k, rho, c, 80) : k \in {1, 5}, rho \in {2, 3}, c \in {3} }

InitStep == InitWith(StepMaterials)

NextStep ==
    \/ \E room \in StepRooms, st \in SystemTypes : Construct(1, room, 1, st)
    \/ \E p \in HypocaustParams \cup ModernParams :
          /\ sims[1] # NoSim
          /\ p \in ParamsOf(sims[1].system_type)
          /\ last.op = "__init__"
          /\ update_system_params(1, p)
    \/ \E initial_temp \in InitialTemps, time_steps \in 0..1 :
          /\ last.op = "update_system_params"
          /\ HeatCall(1, initial_temp, time_steps)
    \/ HeatStep
    \/ HeatReturn

SpecStep == InitStep /\ [][NextStep]_vars

\* Construction and the ownership of the material record: both simulations
\* are built from the caller's one mapping, which the caller goes on using.
SystemTypeOf(s) == IF s = 1 THEN "hypocaust" ELSE "modern"

InitObjects == InitWith(MaterialInputs \cup DatabaseMaterials)

NextObjects ==
    \/ \E s \in SimIds : Construct(s, <<10, 8>>, 1, SystemTypeOf(s))
    \/ \E val \in {80, 90} : MutateCaller(1, "source_temp", val)
    \/ \E s \in SimIds, val \in {80, 70} : MutateSim(s, "source_temp", val)
    \/ calculate_thermal_diffusivity(1)

SpecObjects == InitObjects /\ [][NextObjects]_vars

\* The efficiency metrics of both simulations on given distributions.
EfficiencyFields ==
    {<<15, 15, 15, 15>>, <<15, 15, 80, 80>>, <<15, 80, 80, 80>>, <<0, 0, 0, 80>>,
     <<-20, 15, 15, 80>>, <<-20, -20, -20, -20>>, <<-20, -20, 15, 80>>, <<-80, -15, 15, 80>>,
     <<-90, 15, 15, 20>>}

InitEfficiency == InitWith({Material(1, 2, 3, 80)})

NextEfficiency ==
    \/ \E s \in SimIds : Construct(s, <<10, 8>>, 1, SystemTypeOf(s))
    \/ \E s \in SimIds, val \in {80, 40} : MutateSim(s, "source_temp", val)
    \/ \E s \in SimIds, distribution \in EfficiencyFields :
          calculate_efficiency(s, distribution)

SpecEfficiency == InitEfficiency /\ [][NextEfficiency]_vars

\* The derived metrics: CO2 accounting and the retention curve.
InitMetrics ==
    InitWith({ FuelMaterial(f, m) : f \in FuelInputs, m \in {"roman_concrete", "steel"} }
             \cup {Material(1, 2, 3, 80)})

NextMetrics ==
    \/ \E st \in SystemTypes : Construct(1, <<10, 8>>, 1, st)
    \/ \E p \in HypocaustParams \cup ModernParams :
          /\ sims[1] # NoSim
          /\ p \in ParamsOf(sims[1].system_type)
          /\ update_system_params(1, p)
    \/ \E power \in PowerInputs, duration_hours \in CO2Durations :
          calculate_co2_emissions(1, power, duration_hours)
    \/ \E initial_temp \in InitialTemps, duration_hours \in Durations :
          \E noise \in NoiseDraws(duration_hours + 1) :
              calculate_hourly_energy_retention(1, initial_temp, duration_hours, noise)
    \/ \E volume \in Volumes, temp_diff \in TempDiffs, efficiency \in Efficiencies :
          calculate_power_consumption(volume, temp_diff, efficiency)

SpecMetrics == InitMetrics /\ [][NextMetrics]_vars

\* ------------------------------------------------------------------------
\* The solver's claims

\* The field in T belongs to the call in progress or just returned.
FieldOf(s) ==
    /\ last.op = "calculate_heat_transfer"
    /\ last.kind \in {"running", "return"}
    /\ call # NoCall
    /\ call.sim = s
Returned(s) == FieldOf(s) /\ last.kind = "return" /\ pc = "idle"
ValidRoom(sim) == sim.dimensions[1] > 0 /\ sim.dimensions[2] > 0

\* The field the grid initialisation of the current call produced.
field0(s) == initial_field(sims[s], heap[sims[s].properties], call.initial_temp).grid
source_temp_of(s) == heap[sims[s].properties]["source_temp"]

\* The cells the grid initialisation set to source_temp.
source_cells(s) ==
    { c \in (0..sims[s].grid_size[1]-1) \X (0..sims[s].grid_size[2]-1) :
        field0(s)[c[1]][c[2]] = Num(Scale0 * source_temp_of(s)) }

\* C1: during time stepping every cell the grid initialisation set to
\* source_temp still equals source_temp after every step.
C1_SourceCellsHeld ==
    FieldOf(1) =>
        \A c \in source_cells(1) :
            T[c[1]][c[2]] = at_scale(sims[1], t, source_temp_of(1))

\* C2: the mean of the field returned by a valid run with
\* source_temp > initial_temp lies in [initial_temp, source_temp].
C2_MeanWithinBounds ==
    (Returned(1) /\ ValidRoom(sims[1]) /\ source_temp_of(1) > call.initial_temp) =>
        /\ NumLeq(uniform_sum(sims[1], t, call.initial_temp), field_sum(sims[1], T))
        /\ NumLeq(field_sum(sims[1], T), uniform_sum(sims[1], t, source_temp_of(1)))

\* C3: with everything else fixed, the mean of the field for time_steps = n+1
\* is at least the mean of the field for time_steps = n: no step of a valid
\* heating run lowers the mean.
C3_MeanNeverDecreases ==
    [][(/\ pc = "loop" /\ t' = t + 1
        /\ ValidRoom(sims[1]) /\ source_temp_of(1) > call.initial_temp)
       => NumLeq(NumScale(StepDen(sims[1]), field_sum(sims[1], T)),
                 field_sum(sims[1], T'))]_vars

\* The cells the system designates as its heat source: the chamber cells of
\* every pillar column (hypocaust), the radiator block (modern).
designated_source(sim, i, j) ==
    LET N0 == sim.grid_size[1]
        N1 == sim.grid_size[2]
        a == sim.attrs
    IN  IF sim.system_type = "hypocaust"
        THEN /\ j % to_cells(a["pillar_spacing"], N0, sim.dimensions[1]) = 0
             /\ i >= PyIndex(-to_cells(a["chamber_height"], N1, sim.dimensions[2]), N0)
        ELSE /\ i >= PyIndex(to_cells(a["radiator_placement"], N0, sim.dimensions[1]), N0)
             /\ i < PyIndex(to_cells(a["radiator_placement"], N0, sim.dimensions[1])
                            + to_cells(a["radiator_height"], N0, sim.dimensions[1]), N0)
             /\ j < PyIndex(Max(1, to_cells(a["radiator_width"], N1, sim.dimensions[2])), N1)

\* C4: in the field before the first step every designated source cell
\* equals source_temp and no other cell does (source_temp # initial_temp).
C4_SourceRegionExact ==
    (/\ FieldOf(1) /\ t = 0 /\ ValidRoom(sims[1])
     /\ source_temp_of(1) # call.initial_temp) =>
        \A i \in 0..sims[1].grid_size[1]-1, j \in 0..sims[1].grid_size[2]-1 :
            designated_source(sims[1], i, j)
                <=> (T[i][j] = Num(Scale0 * source_temp_of(1)))

\* C9: a room dimension or a duration_hours that is not positive is reported
\* as an error: such a call returns neither a field nor a curve.
C9_InvalidConfigurationRejected ==
    /\ (last.op = "calculate_heat_transfer" /\ ~ValidRoom(sims[last.sim]))
           => last.kind # "return"
    /\ (last.op = "calculate_hourly_energy_retention" /\ last.args[2] <= 0)
           => last.kind # "return"

\* ------------------------------------------------------------------------
\* The claims on the derived metrics

\* The fuel the simulation is configured with.
configured_fuel(s) == dict_get(heap[sims[s].properties], "fuel_type", "natural_gas")

\* C5: the operational entry of every fuel f of the table is
\* power_consumption x factor[f] x duration_hours x w, with f's own factor,
\* w = 0.8 for the configured fuel and 0.1 for the others.
C5_OperationalPerFuel ==
    (last.op = "calculate_co2_emissions" /\ last.kind = "return") =>
        /\ DOMAIN last.val.operational = FuelTable
        /\ \A f \in FuelTable :
              RatEq(last.val.operational[f],
                    RatMul(RatMul(RatMul(last.args[1], emissions_factors(f)),
                                  RatInt(last.args[2])),
                           IF f = configured_fuel(last.sim)
                           THEN Rat(8, 10) ELSE Rat(1, 10)))

\* C6: the first point of every returned retention curve is exactly 100%.
C6_FullRetentionAtHourZero ==
    (/\ last.op = "calculate_hourly_energy_retention" /\ last.kind = "return"
     /\ Len(last.val.retention) >= 1) =>
        last.val.retention[1] = 100000

\* ------------------------------------------------------------------------
\* The claims on construction

\* The mapping the last constructor call was given, and what it lacks.
given_properties == heap[last.args[2]]
lacking == { prop \in RequiredSet : prop \notin DOMAIN given_properties }
diffusivity_undefined ==
    /\ "thermal_diffusivity" \notin DOMAIN given_properties
    /\ given_properties["density"] * given_properties["specific_heat"] = 0

\* Construction fails with an error naming every missing property and
\* produces no object.
fails_naming_missing ==
    /\ last.kind = "raise"
    /\ last.exc = "ValueError"
    /\ { last.val[k] : k \in 1..Len(last.val) } = lacking
    /\ sims[last.sim] = NoSim

\* C7 as stated: a mapping lacking a required property makes construction
\* fail naming every missing property, with no object produced; with all
\* three present construction succeeds.
C7_MissingPropertiesAsStated ==
    last.op = "__init__" =>
        IF lacking # {} THEN fails_naming_missing
        ELSE last.kind = "return" /\ sims[last.sim] # NoSim

\* C7: a mapping lacking a required property makes construction fail naming
\* every missing property, with no object produced; with all three present
\* construction succeeds unless thermal_diffusivity is absent and
\* density * specific_heat is zero, when it fails with ZeroDivisionError.
C7_MissingPropertiesReported ==
    last.op = "__init__" =>
        IF lacking # {} THEN fails_naming_missing
        ELSE IF diffusivity_undefined
             THEN /\ last.kind = "raise" /\ last.exc = "ZeroDivisionError"
                  /\ sims[last.sim] = NoSim
             ELSE last.kind = "return" /\ sims[last.sim] # NoSim

\* A construction refused for two or more missing properties.
C7_Witness ==
    /\ last.op = "__init__"
    /\ last.kind = "raise"
    /\ last.exc = "ValueError"
    /\ Len(last.val) >= 2
    /\ sims[last.sim] = NoSim

\* C8: construction fails when a required property is present but not
\* positive.
C8_NonPositiveRejected ==
    (/\ last.op = "__init__"
     /\ lacking = {}
     /\ \E prop \in RequiredSet : given_properties[prop] <= 0) =>
        last.kind = "raise"

\* C10: each simulation owns a private copy of the material record.
\* Construction leaves the caller's mapping as it was; a change of the
\* caller's mapping changes no simulation's record; a change of one
\* simulation's record changes neither the caller's mapping nor the other
\* simulation's record.
C10_PrivateCopy ==
    [][/\ last'.op = "__init__" =>
            \A mp \in CallerDicts : heap'[mp] = heap[mp]
       /\ last'.op = "caller_update" =>
            \A s \in SimIds :
                sims[s] # NoSim => heap'[sims[s].properties] = heap[sims[s].properties]
       /\ last'.op = "sim_update" =>
            /\ \A mp \in CallerDicts : heap'[mp] = heap[mp]
            /\ \A s \in SimIds \ {last'.sim} :
                  sims[s] # NoSim =>
                      heap'[sims[s].properties] = heap[sims[s].properties]]_vars

\* Two simulations built from one mapping, after the caller changed its
\* mapping and one simulation changed its record.
C10_Witness ==
    /\ sims[1] # NoSim
    /\ sims[2] # NoSim
    /\ heap[1]["source_temp"] = 90
    /\ heap[sims[1].properties]["source_temp"] = 70
    /\ heap[sims[2].properties]["source_temp"] = 80
    /\ "thermal_diffusivity" \notin DOMAIN heap[1]
    /\ "thermal_diffusivity" \in DOMAIN heap[sims[1].properties]

\* ------------------------------------------------------------------------
\* The claims on the time step and the diffusivity

\* The locals dx, dy, alpha and dt of the call on simulation s.
dx_of(s) == grid_spacing(sims[s])[1]
dy_of(s) == grid_spacing(sims[s])[2]
alpha_of(s) == heap[sims[s].properties]["thermal_diffusivity"]
dt_of(s) == time_step(dx_of(s), dy_of(s), alpha_of(s))

\* alpha * dt * (1/dx**2 + 1/dy**2)
stability_number(dx, dy, alpha, dt) ==
    RatMul(RatMul(alpha, dt),
           RatAdd(RatDiv(RatInt(1), RatMul(dx, dx)), RatDiv(RatInt(1), RatMul(dy, dy))))

\* C11: for positive dx, dy and alpha the time step the solver computes
\* satisfies alpha * dt * (1/dx^2 + 1/dy^2) <= 0.5.
C11_TimeStepStable ==
    (/\ FieldOf(1)
     /\ dx_of(1).num > 0 /\ dy_of(1).num > 0 /\ alpha_of(1).num > 0) =>
        RatLeq(stability_number(dx_of(1), dy_of(1), alpha_of(1), dt_of(1)), Rat(1, 2))

\* A call in a square room, where the bound is attained.
C11_Witness ==
    /\ FieldOf(1)
    /\ dx_of(1).num > 0 /\ dy_of(1).num > 0 /\ alpha_of(1).num > 0
    /\ dx_of(1) = dy_of(1)
    /\ RatEq(stability_number(dx_of(1), dy_of(1), alpha_of(1), dt_of(1)), Rat(1, 2))

\* The caller's record has the three required properties, all positive.
positive_material(material) ==
    /\ RequiredSet \subseteq DOMAIN material
    /\ \A prop \in RequiredSet : material[prop] > 0

\* C12: a simulation built from a record without thermal_diffusivity has
\* diffusivity thermal_conductivity / (density * specific_heat), positive
\* when the three are positive; a pre-supplied thermal_diffusivity is kept;
\* MaterialDatabase.calculate_thermal_diffusivity returns the value of the
\* constructor's derivation.
C12_Diffusivity ==
    /\ \A s \in SimIds :
          sims[s] # NoSim =>
              IF "thermal_diffusivity" \in DOMAIN heap[1]
              THEN alpha_of(s) = heap[1]["thermal_diffusivity"]
              ELSE /\ alpha_of(s).num * heap[1]["density"] * heap[1]["specific_heat"]
                        = heap[1]["thermal_conductivity"] * alpha_of(s).den
                   /\ alpha_of(s).den # 0
                   /\ positive_material(heap[1]) =>
                          RatNorm(alpha_of(s)).num > 0 /\ RatNorm(alpha_of(s)).den > 0
    /\ (last.op = "calculate_thermal_diffusivity" /\ last.kind = "return") =>
          /\ RatEq(last.val, derive_diffusivity(heap[last.args[1]]))
          /\ \A s \in SimIds :
                (sims[s] # NoSim /\ "thermal_diffusivity" \notin DOMAIN heap[1]) =>
                    RatEq(last.val, alpha_of(s))

\* Both simulations built from a database material, and the database asked
\* for its diffusivity.
C12_Witness ==
    /\ sims[1] # NoSim
    /\ sims[2] # NoSim
    /\ heap[1] \in DatabaseMaterials
    /\ last.op = "calculate_thermal_diffusivity"
    /\ last.kind = "return"

\* ------------------------------------------------------------------------
\* Further claims on the CO2 accounting

\* The emission factor of the configured fuel (0.2 for a fuel the table
\* does not list) and the total operational emission of the last call.
configured_factor(s) ==
    IF configured_fuel(s) \in FuelTable THEN emissions_factors(configured_fuel(s))
    ELSE Rat(2, 10)
operational_total ==
    RatMul(RatMul(last.args[1], configured_factor(last.sim)), RatInt(last.args[2]))

\* C13: net_emissions = operational + embodied_carbon + maintenance_impact
\* - carbon_offset, with the three as reported in the same result and
\* operational the total power_consumption x emission_factor x duration_hours.
C13_NetEmissions ==
    (last.op = "calculate_co2_emissions" /\ last.kind = "return") =>
        RatEq(RatAdd(last.val.net_emissions, last.val.carbon_offset),
              RatAdd(RatAdd(operational_total, last.val.embodied_carbon),
                     last.val.maintenance_impact))

\* A returned breakdown with a carbon offset that is not zero.
C13_Witness ==
    /\ last.op = "calculate_co2_emissions"
    /\ last.kind = "return"
    /\ last.val.carbon_offset.num > 0
    /\ last.val.embodied_carbon.num > 0

\* ------------------------------------------------------------------------
\* The claims on the power consumption

\* C14: for efficiency > 0 calculate_power_consumption returns
\* (volume x 1.225 x 1.005 x temp_diff) / 3600 / efficiency.
C14_PowerConsumption ==
    (last.op = "calculate_power_consumption" /\ RatNorm(last.args[3]).num > 0) =>
        /\ last.kind = "return"
        /\ RatEq(RatMul(RatMul(last.val, last.args[3]), RatInt(3600)),
                 RatMul(RatMul(RatMul(last.args[1], Rat(1225, 1000)), Rat(1005, 1000)),
                        last.args[2]))

\* The scenario volume 240, temp_diff 65, efficiency 0.5: 42679/4000 kWh.
C14_Witness ==
    /\ last.op = "calculate_power_consumption"
    /\ last.args = <<RatInt(240), RatInt(65), Rat(1, 2)>>
    /\ last.kind = "return"
    /\ last.val = Rat(42679, 4000)

\* C15: for efficiency <= 0 calculate_power_consumption returns no
\* ordinary finite value: it fails.
C15_NonPositiveEfficiencyFails ==
    (last.op = "calculate_power_consumption" /\ RatNorm(last.args[3]).num <= 0) =>
        last.kind = "raise"

\* ------------------------------------------------------------------------
\* Further claims on the retention curve

\* C16: the curve returned for duration_hours has duration_hours + 1 points,
\* at the hours 0, 1, ..., duration_hours, and every retention value lies in
\* [20, 100] whatever the noise; for duration_hours >= 0 the call returns.
C16_RetentionCurveShape ==
    last.op = "calculate_hourly_energy_retention" =>
        /\ last.args[2] >= 0 => last.kind = "return"
        /\ last.kind = "return" =>
              /\ Len(last.val.time_points) = last.args[2] + 1
              /\ Len(last.val.retention) = last.args[2] + 1
              /\ \A k \in 1..Len(last.val.time_points) : last.val.time_points[k] = k - 1
              /\ \A k \in 1..Len(last.val.retention) :
                    last.val.retention[k] >= 20000 /\ last.val.retention[k] <= 100000

\* The default 25-point curve with noise that reaches both limits.
C16_Witness ==
    /\ last.op = "calculate_hourly_energy_retention"
    /\ last.kind = "return"
    /\ last.args[2] = 24
    /\ Len(last.val.retention) = 25
    /\ \E k \in 1..25 : last.val.retention[k] = 20000
    /\ \E k \in 1..25 : last.val.retention[k] = 100000

\* ------------------------------------------------------------------------
\* The claims on the efficiency metrics

\* The last call was calculate_efficiency and returned finite values.
EfficiencyReturned ==
    /\ last.op = "calculate_efficiency"
    /\ last.kind = "return"
    /\ "nonfinite" \notin DOMAIN last.val
given_mean == field_mean(last.args[1])
given_variance == field_variance(last.args[1])
\* stddev > mean, for the distribution of the last call
stddev_exceeds_mean ==
    RatSign(given_mean) < 0 \/ RatSign(RatSub(given_variance, RatMul(given_mean, given_mean))) > 0

\* mean_temperature, uniformity and efficiency follow the formulas, and the
\* hypocaust efficiency is 0.9 times the modern efficiency for the same
\* distribution and source_temp.
efficiency_formulas ==
    LET n == Len(last.args[1])
        S == RatInt(source_temp_of(last.sim))
        f == IF sims[last.sim].system_type = "hypocaust" THEN Rat(9, 10) ELSE Rat(1, 1)
    IN  /\ last.val.mean_temperature.num * n
              = last.val.mean_temperature.den * seq_sum(last.args[1], n)
        /\ RatEq(last.val.uniformity.base, RatInt(1))
        /\ RatEq(RatMul(last.val.uniformity.per_std, last.val.mean_temperature), RatInt(-1))
        /\ RatEq(RatMul(last.val.efficiency.base, S),
                 RatMul(f, last.val.mean_temperature))
        /\ RatEq(RatMul(last.val.efficiency.per_std, S), RatNeg(f))
        /\ \A s \in SimIds :
              (/\ sims[s] # NoSim
               /\ sims[last.sim].system_type = "hypocaust"
               /\ sims[s].system_type = "modern"
               /\ source_temp_of(s) = source_temp_of(last.sim)) =>
                  LET modern == efficiency_report(sims[s], heap[sims[s].properties],
                                                  last.args[1]).efficiency
                  IN  /\ RatEq(last.val.efficiency.base, RatMul(Rat(9, 10), modern.base))
                      /\ RatEq(last.val.efficiency.per_std,
                               RatMul(Rat(9, 10), modern.per_std))

cell_sizes(sim) ==
    LET N0 == sim.grid_size[1]
        N1 == sim.grid_size[2]
        a == sim.attrs
    IN  IF sim.system_type = "hypocaust"
        THEN {to_cells(a["pillar_spacing"], N0, sim.dimensions[1]),
              to_cells(a["chamber_height"], N1, sim.dimensions[2]),
              to_cells(a["pillar_height"], N1, sim.dimensions[2])}
        ELSE {to_cells(a["radiator_height"], N0, sim.dimensions[1]),
              Max(1, to_cells(a["radiator_width"], N1, sim.dimensions[2]))}

\* C18: for positive parameter values in a valid room every size conversion
\* of the grid initialisation yields at least one cell, the initialisation
\* completes without error and the source region is not empty.
C18_CellCountsAtLeastOne ==
    (last.op = "calculate_heat_transfer" /\ ValidRoom(sims[last.sim])) =>
        /\ last.kind # "raise"
        /\ \A cells \in cell_sizes(sims[last.sim]) : cells >= 1
        /\ source_cells(last.sim) # {}

\* The stored integer x of a field cell, n steps later on an unchanged cell.
RECURSIVE scaled_by_steps(_, _, _)
scaled_by_steps(sim, n, x) ==
    IF n = 0 THEN x ELSE NumScale(StepDen(sim), scaled_by_steps(sim, n - 1, x))

\* The outermost ring of the grid.
ring(sim) ==
    { c \in (0..sim.grid_size[1]-1) \X (0..sim.grid_size[2]-1) :
        \/ c[1] = 0 \/ c[1] = sim.grid_size[1] - 1
        \/ c[2] = 0 \/ c[2] = sim.grid_size[2] - 1 }

\* C19: the stepping loop never writes the outermost ring: after any number
\* of steps every ring cell has the value the initialisation gave it.
C19_RingNeverWritten ==
    FieldOf(1) =>
        \A c \in ring(sims[1]) :
            T[c[1]][c[2]] = scaled_by_steps(sims[1], t, field0(1)[c[1]][c[2]])

\* A field after the last step of a run whose interior has changed.
C19_Witness ==
    /\ FieldOf(1)
    /\ t = MaxSteps
    /\ \E i \in 1..sims[1].grid_size[1]-2, j \in 1..sims[1].grid_size[2]-2 :
          T[i][j] # scaled_by_steps(sims[1], t, field0(1)[i][j])

\* C20: within one step every new value is computed from the field of the
\* previous step only: the step of the solver is the pass of the loops in
\* the order of the code, and the pass in the opposite order gives the same
\* field.
C20_DoubleBuffer ==
    [][(pc = "loop" /\ t' = t + 1) =>
          /\ T' = loop_pass(sims[call.sim], T,
                            index_range(sims[call.sim].grid_size[1]),
                            index_range(sims[call.sim].grid_size[2]))
          /\ T' = loop_pass(sims[call.sim], T,
                            index_range_reversed(sims[call.sim].grid_size[1]),
                            index_range_reversed(sims[call.sim].grid_size[2]))]_vars

\* A field after a step that changed an interior cell and the neighbour the
\* loops visit just before it: a read of the new buffer would have seen the
\* neighbour's new value.
C20_Witness ==
    /\ FieldOf(1)
    /\ t = 1
    /\ \E i \in 2..sims[1].grid_size[1]-2, j \in 2..sims[1].grid_size[2]-2 :
          /\ T[i][j] # scaled_by_steps(sims[1], 1, field0(1)[i][j])
          /\ T[i][j-1] # scaled_by_steps(sims[1], 1, field0(1)[i][j-1])
          /\ T[i-1][j] # scaled_by_steps(sims[1], 1, field0(1)[i-1][j])

\* ------------------------------------------------------------------------
\* The claims on the update formula and the initial field

\* Twice the multipliers of the row-axis and the column-axis term where the
\* 1.5 gives way to 1.0 in the updated cells beside the boundary the heat
\* source lies on: the last updated row for hypocaust (the floor is the last
\* row), the first updated column for modern (the radiator is on column 0).
reverting_factor2(sim, i, j) ==
    IF sim.system_type = "hypocaust"
    THEN <<IF i = sim.grid_size[1] - 2 THEN 2 ELSE 3, 2>>
    ELSE <<2, IF j = 1 THEN 2 ELSE 3>>

\* C21: in each step an interior cell's update is T + alpha*dt*(five-point
\* Laplacian) with the multiplier 1.5 on the row-axis second difference for
\* hypocaust and on the column-axis one for modern, 1.0 on the other term,
\* and 1.0 instead of 1.5 in the updated cells at the boundary beside the
\* heat source.
C21_UpdateFormula ==
    [][(pc = "loop" /\ t' = t + 1) =>
          LET co == step_coefficients(sims[call.sim])
          IN  \A i \in 1..sims[call.sim].grid_size[1]-2, j \in 1..sims[call.sim].grid_size[2]-2 :
                  T'[i][j] = five_point(co, T, i, j,
                                        reverting_factor2(sims[call.sim], i, j))]_vars

\* The hypocaust field with the gradient above the chamber cells: in a
\* source column the bottom chamber_cells rows hold source_temp and the
\* pillar_cells rows above them the linear gradient.
gradient_above_chamber(sim, i, j, initial_temp, source_temp) ==
    LET N0 == sim.grid_size[1]
        N1 == sim.grid_size[2]
        a == sim.attrs
        spacing == to_cells(a["pillar_spacing"], N0, sim.dimensions[1])
        chamber_cells == to_cells(a["chamber_height"], N1, sim.dimensions[2])
        pillar_cells == to_cells(a["pillar_height"], N1, sim.dimensions[2])
    IN  IF j % spacing # 0 THEN Scale0 * initial_temp
        ELSE IF i >= N0 - chamber_cells THEN Scale0 * source_temp
        ELSE IF i >= N0 - chamber_cells - pillar_cells
             THEN linspace(initial_temp, source_temp, pillar_cells,
                           i - (N0 - chamber_cells - pillar_cells))
             ELSE Scale0 * initial_temp

\* C22: the hypocaust initialisation has its source columns at 0, s, 2s, ...
\* with s the pillar spacing in cells; in each the bottom chamber_cells cells
\* equal source_temp and the gradient from initial_temp to source_temp lies
\* in the pillar_cells cells above them, overwriting no chamber cell; every
\* cell of another column equals initial_temp.
C22_HypocaustInitialisation ==
    (/\ FieldOf(1) /\ t = 0 /\ ValidRoom(sims[1])
     /\ sims[1].system_type = "hypocaust") =>
        \A i \in 0..sims[1].grid_size[1]-1, j \in 0..sims[1].grid_size[2]-1 :
            T[i][j] = Num(gradient_above_chamber(sims[1], i, j, call.initial_temp,
                                                 source_temp_of(1)))

\* The radiator block: rows placement_cells .. placement_cells +
\* radiator_height_cells - 1, cut off at the grid edge, of the columns
\* 0 .. radiator_width_cells - 1.
radiator_block(sim) ==
    LET N0 == sim.grid_size[1]
        N1 == sim.grid_size[2]
        a == sim.attrs
        radiator_height_cells == to_cells(a["radiator_height"], N0, sim.dimensions[1])
        radiator_width_cells == Max(1, to_cells(a["radiator_width"], N1, sim.dimensions[2]))
        placement_cells == to_cells(a["radiator_placement"], N0, sim.dimensions[1])
    IN  { c \in (0..N0-1) \X (0..N1-1) :
            /\ c[1] >= placement_cells
            /\ c[1] <= placement_cells + radiator_height_cells - 1
            /\ c[2] <= radiator_width_cells - 1 }

\* C23: the modern initialisation sets exactly the radiator block to
\* source_temp; the block is not empty and every cell outside it equals
\* initial_temp.
C23_ModernInitialisation ==
    (/\ FieldOf(1) /\ t = 0 /\ ValidRoom(sims[1])
     /\ sims[1].system_type = "modern") =>
        /\ radiator_block(sims[1]) # {}
        /\ \A i \in 0..sims[1].grid_size[1]-1, j \in 0..sims[1].grid_size[2]-1 :
              T[i][j] = IF <<i, j>> \in radiator_block(sims[1])
                        THEN Num(Scale0 * source_temp_of(1))
                        ELSE Num(Scale0 * call.initial_temp)

\* ------------------------------------------------------------------------
\* The claims on repeated calls

\* The caller holds the field of an earlier call that had the arguments of
\* the call in progress.
same_call_before ==
    /\ received # NoResult
    /\ call # NoCall
    /\ received.sim = call.sim
    /\ received.initial_temp = call.initial_temp
    /\ received.time_steps = call.time_steps

\* C24: calculate_heat_transfer is single-shot and stateless: a call leaves
\* the simulation's properties, dimensions, system_type and system
\* parameters as they were, starts from a field built anew from
\* initial_temp, and returns the field an earlier call with the same
\* arguments on the same simulation returned.
C24_SingleShot ==
    [][/\ last'.op = "calculate_heat_transfer" => (heap' = heap /\ sims' = sims)
       /\ (pc = "idle" /\ pc' = "loop") =>
              T' = initial_field(sims[call'.sim], heap[sims[call'.sim].properties],
                                 call'.initial_temp).grid
       /\ (pc = "loop" /\ pc' = "idle" /\ same_call_before) =>
              T = received.field]_vars

\* A call about to return its field after one step, while the caller holds
\* the field of an earlier call with the same arguments.
C24_Witness ==
    /\ pc = "loop"
    /\ t = call.time_steps
    /\ t = 1
    /\ same_call_before
    /\ T = received.field

\* ------------------------------------------------------------------------
\* The claims on the parts of the CO2 breakdown

\* C25: carbon_offset is the total operational emission (power_consumption
\* x emission factor of the configured fuel x duration_hours) times 0.15
\* for a hypocaust simulation and times 0.10 for a modern one, hence between
\* 0 and the operational total for non-negative inputs.
C25_CarbonOffset ==
    (last.op = "calculate_co2_emissions" /\ last.kind = "return") =>
        /\ RatEq(last.val.carbon_offset,
                 RatMul(operational_total,
                        IF sims[last.sim].system_type = "hypocaust"
                        THEN Rat(15, 100) ELSE Rat(10, 100)))
        /\ (RatSign(last.args[1]) >= 0 /\ last.args[2] >= 0) =>
              /\ RatLeq(RatInt(0), last.val.carbon_offset)
              /\ RatLeq(last.val.carbon_offset, operational_total)

\* A modern breakdown with an offset strictly between 0 and the
\* operational total.
C25_Witness ==
    /\ last.op = "calculate_co2_emissions"
    /\ last.kind = "return"
    /\ sims[last.sim].system_type = "modern"
    /\ RatSign(last.val.carbon_offset) > 0
    /\ RatSign(RatSub(operational_total, last.val.carbon_offset)) > 0

\* The material volume of the system from its geometry: room footprint x
\* chamber_height + pillar volume x pillar count (hypocaust), radiator
\* volume + pipe cross-section x room perimeter (modern).
geometry_volume(sim) ==
    LET a == sim.attrs
        L == RatInt(sim.dimensions[1])
        W == RatInt(sim.dimensions[2])
        perimeter == RatMul(RatInt(2), RatAdd(L, W))
        radius == RatDiv(a["pipe_diameter"], RatInt(2))
    IN  IF sim.system_type = "hypocaust"
        THEN RatAdd(RatMul(RatMul(L, W), a["chamber_height"]),
                    RatMul(RatMul(a["pillar_height"], Rat(4, 100)),
                           RatDiv(L, a["pillar_spacing"])))
        ELSE RatAdd(RatMul(RatMul(a["radiator_height"], a["radiator_width"]), Rat(1, 10)),
                    RatMul(RatMul(pi, RatMul(radius, radius)), perimeter))

\* C26: embodied_carbon is the carbon factor of the simulation's material
\* type times the system material volume, the hypocaust volume being
\* length x width x chamber_height + pillar_height x 0.2 x 0.2 x
\* (length / pillar_spacing) and the modern volume radiator_height x
\* radiator_width x 0.1 + pi x (pipe_diameter/2)^2 x room perimeter.
C26_EmbodiedCarbon ==
    (last.op = "calculate_co2_emissions" /\ last.kind = "return") =>
        RatEq(last.val.embodied_carbon,
              RatMul(RatInt(embodied_carbon_factor(
                         dict_get(heap[sims[last.sim].properties], "material_type",
                                  "concrete"))),
                     geometry_volume(sims[last.sim])))

\* The call in progress on simulation 2 has the arguments of the call whose
\* field the caller holds from simulation 1, and the two simulations agree
\* on geometry, system type, system parameters and source_temp.
twin_call_before ==
    /\ received # NoResult
    /\ call # NoCall
    /\ call.sim = 2
    /\ received.sim = 1
    /\ received.initial_temp = call.initial_temp
    /\ received.time_steps = call.time_steps
    /\ sims[1].dimensions = sims[2].dimensions
    /\ sims[1].system_type = sims[2].system_type
    /\ sims[1].attrs = sims[2].attrs
    /\ source_temp_of(1) = source_temp_of(2)

C28_MaximumPrinciple ==
    (/\ FieldOf(1) /\ ValidRoom(sims[1])
     /\ source_temp_of(1) > call.initial_temp) =>
        LET lo == at_scale(sims[1], t, call.initial_temp)
            hi == at_scale(sims[1], t, source_temp_of(1))
        IN  \A i \in 0..sims[1].grid_size[1]-1, j \in 0..sims[1].grid_size[2]-1 :
                NumLeq(lo, T[i][j]) /\ NumLeq(T[i][j], hi)

\* Some call of update_system_params on the simulation had every key of its
\* system type: the attribute assigned last (chamber_height, pipe_diameter)
\* is set by such a call and by no other.
fully_updated(sim) ==
    IF sim.system_type = "hypocaust"
    THEN "chamber_height" \in DOMAIN sim.attrs
    ELSE "pipe_diameter" \in DOMAIN sim.attrs

\* The last call was the solver or the CO2 accounting.
derived_call == last.op \in {"calculate_heat_transfer", "calculate_co2_emissions"}

\* C29: calculate_heat_transfer and calculate_co2_emissions return a result
\* only if update_system_params has been called on the simulation with the
\* keys of its system type; on a freshly constructed simulation they fail;
\* after a successful update_system_params the supplied values are the ones
\* the simulation uses.
C29_CallOrdering ==
    /\ (derived_call /\ last.kind # "raise") => fully_updated(sims[last.sim])
    /\ (derived_call /\ DOMAIN sims[last.sim].attrs = {}) => last.kind = "raise"
    /\ (last.op = "update_system_params" /\ last.kind = "return") =>
          LET keys == IF sims[last.sim].system_type = "hypocaust"
                      THEN hypocaust_keys ELSE modern_keys
          IN  \A k \in 1..Len(keys) :
                  sims[last.sim].attrs[keys[k]] = last.args[1][keys[k]]

\* sum(emissions['operational'].values()), as main computes it.
operational_sum(report) ==
    RatAdd(RatAdd(report.operational["natural_gas"], report.operational["electricity"]),
           report.operational["wood"])

====
